---- MODULE Spec2Model ----
(***************************************************************************)
(* A model of the deep-dna model wrappers (deepdna.nn.models.dnabert,      *)
(* deepdna.nn.models.setbert) and of common.nn.load_model.                 *)
(*                                                                         *)
(* Tensors are records [shape, data] with the data in row-major order, so  *)
(* that tf.reshape keeps the data and changes the shape only.  Real-valued *)
(* activations are modelled by integers.                                   *)
(***************************************************************************)
EXTENDS Integers, Sequences, FiniteSets, TLC

VARIABLES
    encBatch,     \* encode: the input batch handed to DnaBertEncoderModel.encode
    encCalls,     \* encode: the calls made so far, [chunk_size argument, result]
    setModel,     \* aggregation: the SetBertModel called
    setW,         \* aggregation: its learned parameters
    setIn,        \* aggregation: the input set (max_set_len embeddings)
    setPerm,      \* aggregation: a permutation of the members
    setOut,       \* aggregation: <<output on setIn>> once computed
    setOutPerm,   \* aggregation: <<output on the permuted set>> once computed
    lossEmb,      \* loss: the encoder's embeddings of one set (the targets)
    lossOut,      \* loss: the aggregator's output on the masked set, positions 0..n
    lossMasked,   \* loss: num_masked
    lossVal,      \* loss: <<the loss train_step computes>> once computed
    trainW,       \* training: the parameters [enc, cls, att, ind, mask]
    trainW0,      \* training: the parameters before the first step
    trainSteps,   \* training: the number of train_step calls made
    trainTape,    \* training: the last step's loss and the tape's gradients
    trainTest,    \* training: <<the outcome of the last test_step call>>
    bldBase,      \* construction: <<the DnaBertModel built last>>
    bldArgs,      \* construction: the arguments of the last wrapper constructor call
    bldObj,       \* construction: <<[error, self]>>, the outcome of that call
    bldCfg,       \* construction: <<get_config() of the object>> once taken
    bldCopy,      \* construction: <<from_config of that configuration>>
    ldRegistry,   \* loading: the registry of custom objects, name -> object
    ldArgs,       \* loading: the arguments of the last load_model call
    ldObjects,    \* loading: <<the local dict `objects` at the end of that call>>
    ldHanded,     \* loading: <<the arguments handed to tf.keras.models.load_model>>
    ppConfig,     \* dataset script: the parsed command line
    ppStatus,     \* dataset script: where main is ("check", "loop") or how it ended
    ppSplit,      \* dataset script: the loop variable i of main
    ppFiles,      \* dataset script: the list fasta_files
    ppWritten,    \* dataset script: the FASTA and TSV files written so far
    ppCompress    \* dataset script: the calls of compress, [file, split] each

encVars == <<encBatch, encCalls>>
setVars == <<setModel, setW, setIn, setPerm, setOut, setOutPerm>>
lossVars == <<lossEmb, lossOut, lossMasked, lossVal>>
trainVars == <<trainW, trainW0, trainSteps, trainTape, trainTest>>
bldVars == <<bldBase, bldArgs, bldObj, bldCfg, bldCopy>>
ldVars == <<ldRegistry, ldArgs, ldObjects, ldHanded>>
ppVars == <<ppConfig, ppStatus, ppSplit, ppFiles, ppWritten, ppCompress>>
vars == <<encVars, setVars, lossVars, trainVars, bldVars, ldVars, ppVars>>

\* The parts of the state an operation of one component leaves alone.
EncIdle == encBatch = <<>> /\ encCalls = <<>>
SetIdle ==
    /\ setModel = <<>> /\ setW = <<>> /\ setIn = <<>>
    /\ setPerm = <<>> /\ setOut = <<>> /\ setOutPerm = <<>>
LossIdle == lossEmb = <<>> /\ lossOut = <<>> /\ lossMasked = 0 /\ lossVal = <<>>
TrainIdle ==
    /\ trainW = <<>> /\ trainW0 = <<>> /\ trainSteps = 0
    /\ trainTape = <<>> /\ trainTest = <<>>
BldIdle ==
    /\ bldBase = <<>> /\ bldArgs = <<>> /\ bldObj = <<>>
    /\ bldCfg = <<>> /\ bldCopy = <<>>
LdIdle ==
    /\ ldRegistry = <<>> /\ ldArgs = <<>> /\ ldObjects = <<>> /\ ldHanded = <<>>
PpIdle ==
    /\ ppConfig = <<>> /\ ppStatus = "idle" /\ ppSplit = 0
    /\ ppFiles = <<>> /\ ppWritten = {} /\ ppCompress = <<>>
NotEnc == <<setVars, lossVars, trainVars, bldVars, ldVars, ppVars>>
NotSet == <<encVars, lossVars, trainVars, bldVars, ldVars, ppVars>>
NotLoss == <<encVars, setVars, trainVars, bldVars, ldVars, ppVars>>
NotTrain == <<encVars, setVars, lossVars, bldVars, ldVars, ppVars>>
NotBld == <<encVars, setVars, lossVars, trainVars, ldVars, ppVars>>
NotLd == <<encVars, setVars, lossVars, trainVars, bldVars, ppVars>>
NotPp == <<encVars, setVars, lossVars, trainVars, bldVars, ldVars>>

\* Python's None for an optional integer: no legal value is negative.
None == 0 - 1

(***************************************************************************)
(* Bounds of the model.                                                    *)
(***************************************************************************)
MaxRows == 3      \* rows of an encode batch (product of the leading dimensions)
MaxChunk == 3     \* largest chunk_size tried
MaxCalls == 2     \* encode calls compared on one batch

(***************************************************************************)
(* Tensor helpers (row-major).                                             *)
(***************************************************************************)
\* The value f with its mapping computed once: a function constructor is
\* otherwise re-evaluated at every application.
Eager(f) == IF f = f THEN f ELSE f

RECURSIVE Prod(_)
Prod(s) == IF s = <<>> THEN 1 ELSE Head(s) * Prod(Tail(s))

RECURSIVE Flat(_)
Flat(ss) == IF ss = <<>> THEN <<>> ELSE Head(ss) \o Flat(Tail(ss))

Min(a, b) == IF a <= b THEN a ELSE b

\* tf.reshape(t, shp): at most one entry of shp is -1 and is inferred.
TfReshape(t, shp) ==
    LET known == Prod([i \in 1..Len(shp) |-> IF shp[i] = -1 THEN 1 ELSE shp[i]])
        total == Len(t.data)
    IN  [shape |-> Eager([i \in 1..Len(shp) |->
                             IF shp[i] = -1 THEN total \div known ELSE shp[i]]),
         data  |-> t.data]

\* t[i:n] along axis 0 (0-based, the end clipped to the number of rows).
TfSlice0(t, i, n) ==
    LET rows == t.shape[1]
        w    == Prod(Tail(t.shape))
        lo   == Min(i, rows)
        hi   == Min(n, rows)
    IN  [shape |-> <<hi - lo>> \o Tail(t.shape),
         data  |-> SubSeq(t.data, lo * w + 1, hi * w)]

\* tf.concat((a, b), axis=0)
TfConcat0(a, b) ==
    [shape |-> <<a.shape[1] + b.shape[1]>> \o Tail(a.shape),
     data  |-> a.data \o b.data]

\* Row r (0-based) of a rank-2 tensor.
RowOf(t, r) == SubSeq(t.data, r * t.shape[2] + 1, (r + 1) * t.shape[2])

(***************************************************************************)
(* DnaBertModel (dnabert.py:13-67).                                        *)
(***************************************************************************)
RECURSIVE Pow(_, _)
Pow(b, e) == IF e = 0 THEN 1 ELSE b * Pow(b, e - 1)

BoolToInt(b) == IF b THEN 1 ELSE 0

\* build_model, lines 42-43: the mask token, and the padding token when
\* variable_length.
AdditionalTokens(variable_length) == 1 + BoolToInt(variable_length)

\* build_model, line 44 with the last k-mer left out.
InputLengthNoLast(sequence_length, kmer) == sequence_length - kmer

\* build_model, line 44: the Input layer's length.
InputLength(sequence_length, kmer) == sequence_length - kmer + 1

\* build_model, lines 45-48: the first argument of EmbeddingWithClassToken.
VocabSize(num_bases, kmer, variable_length) ==
    Pow(num_bases, kmer) + AdditionalTokens(variable_length)

\* __init__ and build_model: the object with the graph's static shapes.
DnaBertModel(sequence_length, kmer, embed_dim, stack, num_heads, pre_layernorm, variable_length, num_bases) ==
    [class           |-> "DnaBertModel",
     sequence_length |-> sequence_length,
     kmer            |-> kmer,
     embed_dim       |-> embed_dim,
     stack           |-> stack,
     num_heads       |-> num_heads,
     pre_layernorm   |-> pre_layernorm,
     variable_length |-> variable_length,
     num_bases       |-> num_bases,
     input_shape     |-> <<None, InputLength(sequence_length, kmer)>>,
     vocab_size      |-> VocabSize(num_bases, kmer, variable_length),
     output_shape    |-> <<None, 1 + InputLength(sequence_length, kmer), embed_dim>>,
     weights         |-> 0]

(***************************************************************************)
(* The forward pass of the base model on one row of token ids.  The layers *)
(* (EmbeddingWithClassToken, RelativeTransformerBlock) are not part of the *)
(* sources at hand: an integer stand-in with their structure (embedding    *)
(* lookup, class token at position 0, id 0 masked out of attention,        *)
(* position-dependent mixing, `stack` blocks), one row at a time.          *)
(***************************************************************************)
ActMod == 7       \* integer activations are taken modulo ActMod

RECURSIVE SumOver(_, _)
SumOver(f, S) ==
    IF S = {} THEN 0
    ELSE LET x == CHOOSE y \in S : TRUE IN f[x] + SumOver(f, S \ {x})

Abs(x) == IF x < 0 THEN -x ELSE x

EmbeddingWithClassToken(base, ids) ==
    Eager([p \in 0..Len(ids) |->
        [d \in 1..base.embed_dim |->
            IF p = 0 THEN d % ActMod
            ELSE (ids[p] * (d + 1) + d + base.weights) % ActMod]])

RelativeTransformerBlock(base, ids, x) ==
    LET keep == {0} \cup {p \in 1..Len(ids) : ids[p] # 0}
    IN  Eager([p \in 0..Len(ids) |->
            [d \in 1..base.embed_dim |->
                (2 * (x[p][d]
                      + SumOver([q \in keep |-> (1 + Abs(p - q)) * x[q][d]], keep))
                 + 1) % ActMod]])

RECURSIVE BaseBlocks(_, _, _, _)
BaseBlocks(base, ids, x, n) ==
    IF n = 0 THEN x
    ELSE BaseBlocks(base, ids, RelativeTransformerBlock(base, ids, x), n - 1)

\* DnaBertModel.__call__ on one row: positions 0..L, position 0 the class token.
BaseForward(base, ids) ==
    BaseBlocks(base, ids, EmbeddingWithClassToken(base, ids), base.stack)

\* layers.SplitClassToken: (class token, the other positions).
SplitClassToken(y) ==
    <<y[0], [p \in 1..(Cardinality(DOMAIN y) - 1) |-> y[p]]>>

(***************************************************************************)
(* DnaBertEncoderModel (dnabert.py:127-156).                               *)
(***************************************************************************)
DnaBertEncoderModel(base, chunk_size) ==
    [class      |-> "DnaBertEncoderModel",
     base       |-> base,
     chunk_size |-> chunk_size,
     trainable  |-> TRUE]

\* build_model, line 140: Lambda(lambda x: x + 1), whatever the base's
\* variable_length.
EncoderShifted(t) == t + 1

\* build_model, lines 139-143, on one row: shift the ids by one, run the base,
\* keep the class token.
EncoderRow(self, row) ==
    LET y == Eager([i \in 1..Len(row) |-> EncoderShifted(row[i])])
    IN  SplitClassToken(BaseForward(self.base, y))[1]

\* self(x) for a rank-2 batch x: every row on its own (no layer of the graph
\* mixes rows).
EncoderCall(self, x) ==
    [shape |-> <<x.shape[1], self.base.embed_dim>>,
     data  |-> Flat(Eager([r \in 1..x.shape[1] |-> EncoderRow(self, RowOf(x, r - 1))]))]

\* tfu.subbatching.subbatch_predict(model, batch, subbatch_size), called at
\* line 149: the first slice, then one slice per iteration while i < batch_size,
\* each result appended to the ones before.
RECURSIVE SubbatchLoop(_, _, _, _, _)
SubbatchLoop(self, batch, subbatch_size, i, result) ==
    IF i < batch.shape[1]
    THEN SubbatchLoop(self, batch, subbatch_size, i + subbatch_size,
                      TfConcat0(result,
                                EncoderCall(self, TfSlice0(batch, i, i + subbatch_size))))
    ELSE result

subbatch_predict(self, batch, subbatch_size) ==
    SubbatchLoop(self, batch, subbatch_size, subbatch_size,
                 EncoderCall(self, TfSlice0(batch, 0, subbatch_size)))

Last(s) == s[Len(s)]
Front(s) == SubSeq(s, 1, Len(s) - 1)

\* encode, line 150: the result takes the batch's leading shape back.
EncodeRestoreBadOrder(original_shape, result) ==
    LET lead == Front(original_shape)
    IN  TfReshape(result, [i \in 1..Len(lead) |-> lead[Len(lead) + 1 - i]] \o <<-1>>)

EncodeRestore(original_shape, result) ==
    TfReshape(result, Front(original_shape) \o <<-1>>)

\* encode, lines 145-150.
encode(self, batch, chunk_size) ==
    LET cs             == IF chunk_size # None THEN chunk_size ELSE self.chunk_size
        original_shape == batch.shape
        flat           == TfReshape(batch, <<-1, Last(original_shape)>>)
        result         == subbatch_predict(self, flat, cs)
    IN  EncodeRestore(original_shape, result)

(***************************************************************************)
(* Specification SpecEncode: encode is called on one batch with several    *)
(* chunk sizes.                                                            *)
(***************************************************************************)
EncBase == DnaBertModel(2, 1, 2, 2, 1, TRUE, FALSE, 2)
EncModel == DnaBertEncoderModel(EncBase, 2)

RawIds(base) == 0..(Pow(base.num_bases, base.kmer) - 1)

LeadingShapes ==
    {<<n>> : n \in 1..MaxRows}
    \cup {<<p[1], p[2]>> : p \in {q \in (1..MaxRows) \X (1..MaxRows) :
                                    q[1] * q[2] <= MaxRows}}

Batches(base) ==
    LET L == base.input_shape[2]
    IN  UNION {{[shape |-> lead \o <<L>>, data |-> d] :
                   d \in [1..(Prod(lead) * L) -> RawIds(base)]} :
               lead \in LeadingShapes}

ChunkSizes == (1..MaxChunk) \cup {None}

EncodeInit ==
    /\ encBatch \in Batches(EncBase)
    /\ encCalls = <<>>
    /\ SetIdle /\ LossIdle /\ TrainIdle /\ BldIdle /\ LdIdle /\ PpIdle

Encode(chunk_size) ==
    /\ Len(encCalls) < MaxCalls
    /\ encCalls' = Append(encCalls, [chunk_size |-> chunk_size,
                                     result     |-> encode(EncModel, encBatch, chunk_size)])
    /\ UNCHANGED <<encBatch, NotEnc>>

EncodeNext == \E c \in ChunkSizes : Encode(c)

SpecEncode == EncodeInit /\ [][EncodeNext]_vars

\* The row-major offset of the multi-index idx (0-based) in the leading shape.
RECURSIVE LinIndex(_, _)
LinIndex(lead, idx) ==
    IF lead = <<>> THEN 0
    ELSE Head(idx) * Prod(Tail(lead)) + LinIndex(Tail(lead), Tail(idx))

Indices(lead) ==
    {idx \in [1..Len(lead) -> 0..MaxRows] : \A k \in 1..Len(lead) : idx[k] < lead[k]}

\* The trailing vector of tensor t at the leading multi-index idx.
At(t, idx) ==
    LET w   == Last(t.shape)
        lin == LinIndex(Front(t.shape), idx)
    IN  SubSeq(t.data, lin * w + 1, (lin + 1) * w)

EffectiveChunk(c) == IF c # None THEN c ELSE EncModel.chunk_size

\* C1: encode returns the same result for every chunk size: each result has the
\* batch's leading shape with the embedding as trailing axis, the embedding at
\* each leading index is the embedding of that row computed alone, and any two
\* calls on the same batch agree.
C1_EncodeChunkIndependent ==
    /\ \A k \in 1..Len(encCalls) :
          LET r == encCalls[k].result
          IN  /\ r.shape = Front(encBatch.shape) \o <<EncBase.embed_dim>>
              /\ \A idx \in Indices(Front(encBatch.shape)) :
                    At(r, idx) = EncoderRow(EncModel, At(encBatch, idx))
    /\ \A j, k \in 1..Len(encCalls) : encCalls[j].result = encCalls[k].result

\* Two calls with different chunk sizes, the second leaving a partial last
\* slice, on a batch with two leading dimensions and distinct rows.
C1_Witness ==
    /\ Len(encCalls) = 2
    /\ EffectiveChunk(encCalls[1].chunk_size) = 1
    /\ EffectiveChunk(encCalls[2].chunk_size) = 2
    /\ Len(encBatch.shape) = 3
    /\ Prod(Front(encBatch.shape)) = 3
    /\ \E i, j \in Indices(Front(encBatch.shape)) :
          At(encCalls[1].result, i) # At(encCalls[1].result, j)

(***************************************************************************)
(* SetBertModel (setbert.py:119-176).  The learned parameters are passed   *)
(* as a record w: [enc, cls, att, ind, mask].  settransformer's SAB and    *)
(* ISAB and layers.InjectClassToken are integer stand-ins with their       *)
(* structure: multi-head attention blocks MAB(Q, K) = rFF(Q + Att(Q, K, K)) *)
(* whose attention weights depend on the contents of the query and key     *)
(* only; SAB(X) = MAB(X, X); ISAB(X) = MAB(X, MAB(I, X)) with num_induce    *)
(* learned inducing points I.                                              *)
(***************************************************************************)
\* __init__, lines 132-142: the encoder is marked non-trainable.
SetBertModel(dnabert_encoder, embed_dim, max_set_len, stack, num_heads, num_induce, pre_layernorm) ==
    [class           |-> "SetBertModel",
     dnabert_encoder |-> [dnabert_encoder EXCEPT !.trainable = FALSE],
     embed_dim       |-> embed_dim,
     max_set_len     |-> max_set_len,
     stack           |-> stack,
     num_heads       |-> num_heads,
     num_induce      |-> num_induce,
     pre_layernorm   |-> pre_layernorm,
     trainable       |-> TRUE]

Dot(a, b) == SumOver([d \in DOMAIN a |-> a[d] * b[d]], DOMAIN a)

\* layers.InjectClassToken: the learned class token at position 0, the members
\* at positions 1..max_set_len.
InjectClassToken(self, w, x) ==
    Eager([p \in 0..Len(x) |->
        IF p = 0 THEN [d \in 1..self.embed_dim |-> (w.cls + d) % ActMod] ELSE x[p]])

MAB(self, w, q, k) ==
    LET att == Eager([i \in DOMAIN q |->
                  [d \in 1..self.embed_dim |->
                      (q[i][d]
                       + SumOver([j \in DOMAIN k |->
                                    ((Dot(q[i], k[j]) + w.att) % ActMod) * k[j][d]],
                                 DOMAIN k)) % ActMod]])
    IN  Eager([i \in DOMAIN q |->
            [d \in 1..self.embed_dim |-> (att[i][d] + att[i][d] * att[i][d]) % ActMod]])

SAB(self, w, y) == MAB(self, w, y, y)

ISAB(self, w, y) ==
    LET I == Eager([m \in 1..self.num_induce |->
                [d \in 1..self.embed_dim |-> (w.ind + m + d) % ActMod]])
    IN  MAB(self, w, y, MAB(self, w, I, y))

\* A block whose mixing depends on the positions, as the sequence model's
\* RelativeTransformerBlock does.
SetBlockPositional(self, w, y) ==
    Eager([p \in DOMAIN y |->
        [d \in 1..self.embed_dim |->
            (y[p][d] + SumOver([q \in DOMAIN y |-> (1 + Abs(p - q)) * y[q][d]],
                               DOMAIN y)) % ActMod]])

\* build_model, lines 148-164: one block of the stack.
SetBlock(self, w, y) ==
    IF self.num_induce = None THEN SAB(self, w, y) ELSE ISAB(self, w, y)

RECURSIVE SetBlocks(_, _, _, _)
SetBlocks(self, w, y, n) ==
    IF n = 0 THEN y ELSE SetBlocks(self, w, SetBlock(self, w, y), n - 1)

\* build_model, lines 144-165, on one set x (a sequence of max_set_len
\* embeddings): positions 0..max_set_len of the output.
SetForward(self, w, x) ==
    SetBlocks(self, w, InjectClassToken(self, w, x), self.stack)

(***************************************************************************)
(* Specification SpecSet: a SetBertModel is called on a set and on a       *)
(* permutation of it.                                                      *)
(***************************************************************************)
MaxVal == 1       \* largest component of an input embedding

SetEncoder == DnaBertEncoderModel(EncBase, 2)
SetModelPlain == SetBertModel(SetEncoder, 2, 3, 2, 1, None, TRUE)
SetModelInduced == SetBertModel(SetEncoder, 2, 3, 2, 1, 2, TRUE)

Vectors(dim) == [1..dim -> 0..MaxVal]

PermsOf(n) ==
    {f \in [1..n -> 1..n] : \A i, j \in 1..n : f[i] = f[j] => i = j}

\* The set with member i moved to position p[i].
Permute(x, p) ==
    [k \in 1..Len(x) |-> x[CHOOSE i \in 1..Len(x) : p[i] = k]]

SetInit ==
    /\ setModel \in {SetModelPlain, SetModelInduced}
    /\ setW \in [enc : {0}, cls : 0..1, att : 0..1, ind : {0}, mask : {0}]
    /\ setIn \in [1..setModel.max_set_len -> Vectors(setModel.embed_dim)]
    /\ setPerm \in PermsOf(setModel.max_set_len)
    /\ setOut = <<>>
    /\ setOutPerm = <<>>
    /\ EncIdle /\ LossIdle /\ TrainIdle /\ BldIdle /\ LdIdle /\ PpIdle

Aggregate ==
    /\ setOut = <<>>
    /\ setOut' = <<SetForward(setModel, setW, setIn)>>
    /\ UNCHANGED <<setModel, setW, setIn, setPerm, setOutPerm, NotSet>>

AggregatePermuted ==
    /\ setOutPerm = <<>>
    /\ setOutPerm' = <<SetForward(setModel, setW, Permute(setIn, setPerm))>>
    /\ UNCHANGED <<setModel, setW, setIn, setPerm, setOut, NotSet>>

SetNext == Aggregate \/ AggregatePermuted

SpecSet == SetInit /\ [][SetNext]_vars

\* C3: SetBertModel is permutation-equivariant: on the permuted set the class
\* token output (position 0) is unchanged and the output at position 1 + p(i)
\* is the original output at position 1 + i, with and without inducing points.
C3_PermutationEquivariant ==
    (setOut # <<>> /\ setOutPerm # <<>>) =>
        /\ setOutPerm[1][0] = setOut[1][0]
        /\ \A i \in 1..setModel.max_set_len :
              setOutPerm[1][setPerm[i]] = setOut[1][i]

\* Both outputs computed for an induced model, a permutation that moves every
\* member and members whose outputs differ.
C3_Witness ==
    /\ setOut # <<>> /\ setOutPerm # <<>>
    /\ setModel.num_induce # None
    /\ \A i \in 1..setModel.max_set_len : setPerm[i] # i
    /\ \E i, j \in 1..setModel.max_set_len : setOut[1][i] # setOut[1][j]
    /\ setOut[1] # setOutPerm[1]

(***************************************************************************)
(* SetBertPretrainModel (setbert.py:179-256).                              *)
(* Ratios are counted in thousandths.  The masking layer keeps its ratio in *)
(* a float32 variable, which holds fewer digits than the Python float the  *)
(* constructor was given: here it keeps the hundredths.                    *)
(***************************************************************************)
\* The float32 nearest below a ratio (mask_ratio read back with .numpy()).
ToFloat32(r) == (r \div 10) * 10

\* layers.SetMask: the number of masked members.
NumMasked(max_set_len, mask_ratio) == (mask_ratio * max_set_len) \div 1000

SetBertPretrainModel(base, mask_ratio) ==
    [class      |-> "SetBertPretrainModel",
     base       |-> base,
     mask_ratio |-> ToFloat32(mask_ratio),
     num_masked |-> NumMasked(base.max_set_len, ToFloat32(mask_ratio)),
     trainable  |-> TRUE]

\* build_model, line 191: x[0][:, 1:x[1]+1, :], the outputs at positions
\* 1..num_masked.
PredSliceFromZero(y, num_masked) == Eager([k \in 1..num_masked |-> y[k - 1]])

PredSlice(y, num_masked) == Eager([k \in 1..num_masked |-> y[k]])

\* train_step, line 212: y[:, :num_masked, :], the first num_masked embeddings.
TargetSlice(embeddings, num_masked) == SubSeq(embeddings, 1, num_masked)

\* Ascending insertion sort of a sequence of numbers (tf.sort).
RECURSIVE Insert(_, _)
Insert(v, s) ==
    IF s = <<>> THEN <<v>>
    ELSE IF v <= Head(s) THEN <<v>> \o s
    ELSE <<Head(s)>> \o Insert(v, Tail(s))

RECURSIVE TfSort(_)
TfSort(s) == IF s = <<>> THEN <<>> ELSE Insert(Head(s), TfSort(Tail(s)))

\* losses.SortedLoss: the items of a set are sorted along the set axis, each
\* component on its own, before the wrapped loss compares them.
SortItems(items, dim) ==
    LET col == Eager([d \in 1..dim |-> TfSort([k \in 1..Len(items) |-> items[k][d]])])
    IN  Eager([k \in 1..Len(items) |-> [d \in 1..dim |-> col[d][k]]])

\* tf.keras.losses.mean_squared_error with the loss's mean over the items, as
\* the exact fraction num / den (0 / 0 is 0: the reduction divides no-nan).
mean_squared_error(y_true, y_pred, dim) ==
    [num |-> SumOver([k \in 1..Len(y_true) |->
                         SumOver([d \in 1..dim |->
                                     (y_true[k][d] - y_pred[k][d])
                                     * (y_true[k][d] - y_pred[k][d])], 1..dim)],
                     1..Len(y_true)),
     den |-> Len(y_true) * dim]

\* compile, line 200: SortedLoss(mean_squared_error).
compiled_loss(y, y_pred, dim) ==
    mean_squared_error(SortItems(y, dim), SortItems(y_pred, dim), dim)

\* train_step, lines 207-213, from the aggregator's output and the embeddings.
TrainLoss(self, out, embeddings, num_masked) ==
    compiled_loss(TargetSlice(embeddings, num_masked),
                  PredSlice(out, num_masked), self.base.embed_dim)

(***************************************************************************)
(* Specification SpecLoss: the loss of train_step on given embeddings and  *)
(* a given aggregator output.                                              *)
(***************************************************************************)
LossModel(mask_ratio) == SetBertPretrainModel(SetModelPlain, mask_ratio)

MaskRatios == {150, 340, 500, 700, 1000}

LossInit ==
    /\ lossEmb \in [1..SetModelPlain.max_set_len -> Vectors(SetModelPlain.embed_dim)]
    /\ lossMasked \in {LossModel(r).num_masked : r \in MaskRatios}
    /\ \E p \in PermsOf(SetModelPlain.max_set_len) :
       \E c \in {[d \in 1..SetModelPlain.embed_dim |-> 0],
                 [d \in 1..SetModelPlain.embed_dim |-> MaxVal]} :
          lossOut = [k \in 0..SetModelPlain.max_set_len |->
                        IF k = 0 THEN c ELSE Permute(lossEmb, p)[k]]
    /\ lossVal = <<>>
    /\ EncIdle /\ SetIdle /\ TrainIdle /\ BldIdle /\ LdIdle /\ PpIdle

ComputeLoss ==
    /\ lossVal = <<>>
    /\ lossVal' = <<TrainLoss(LossModel(100), lossOut, lossEmb, lossMasked)>>
    /\ UNCHANGED <<lossEmb, lossOut, lossMasked, NotLoss>>

LossNext == ComputeLoss

SpecLoss == LossInit /\ [][LossNext]_vars

Count(s, v) == Cardinality({k \in DOMAIN s : s[k] = v})

\* Whether the sequences a and b hold the same items, in any order.
IsPermutationOf(a, b) ==
    /\ Len(a) = Len(b)
    /\ \A k \in DOMAIN a : Count(a, a[k]) = Count(b, a[k])

\* C4: the sorted-match loss over the num_masked predictions (output positions
\* 1..num_masked) and the first num_masked embeddings is exactly zero whenever
\* the predictions are a permutation of those targets.
C4_SortedLossZeroOnPermutation ==
    (lossVal # <<>>
     /\ IsPermutationOf([k \in 1..lossMasked |-> lossOut[k]],
                        [k \in 1..lossMasked |-> lossEmb[k]]))
        => lossVal[1].num = 0

\* A loss computed on predictions that are the targets in another order, the
\* masked members all different.
C4_Witness ==
    /\ lossVal # <<>>
    /\ lossMasked = 3
    /\ IsPermutationOf([k \in 1..lossMasked |-> lossOut[k]],
                       [k \in 1..lossMasked |-> lossEmb[k]])
    /\ \A k \in 1..lossMasked : lossOut[k] # lossEmb[k]
    /\ lossVal[1].den > 0

(***************************************************************************)
(* SetBertPretrainModel.call and train_step (setbert.py:204-237).          *)
(*                                                                         *)
(* Under the gradient tape a quantity is a pair of evaluations: at the     *)
(* parameters w0 in effect, and at perturbed parameters w.  The gradient   *)
(* with respect to a parameter is the difference the perturbation of that  *)
(* parameter makes to the loss.                                            *)
(***************************************************************************)
Variables == {"enc", "cls", "att", "ind", "mask"}

WithWeights(encoder, w) == [encoder EXCEPT !.base.weights = w.enc]

\* The members of the one set of a batch of shape (1, max_set_len, dim).
SetItems(t) == Eager([k \in 1..t.shape[2] |-> At(t, <<0, k - 1>>)])

\* tf.stop_gradient passes the value on and cuts the tape: the value at the
\* parameters in effect, whatever the perturbation.
StopGradientPassThrough(at_w0, at_w) == at_w

StopGradient(at_w0, at_w) == at_w0

\* self.base.dnabert_encoder.encode(inputs) with the encoder's weights w.
EncodeSet(self, w, inputs) ==
    SetItems(encode(WithWeights(self.base.dnabert_encoder, w), inputs, None))

\* call, line 228.
CallEmbeddings(self, w0, w, inputs) ==
    StopGradient(EncodeSet(self, w0, inputs), EncodeSet(self, w, inputs))

\* layers.SetMask: the first num_masked members are replaced by the learned
\* mask token.
SetMask(self, w, x) ==
    <<self.num_masked,
      Eager([k \in 1..Len(x) |->
          IF k <= self.num_masked
          THEN [d \in 1..self.base.embed_dim |-> (w.mask + d) % ActMod]
          ELSE x[k]])>>

\* build_model, lines 190-192, from the masking layer's (num_masked, y).
GraphOutput(self, w, m) ==
    <<m[1], PredSlice(SetForward(self.base, w, m[2]), m[1])>>

\* build_model, lines 187-192: (num_masked, predictions).
PretrainGraph(self, w, embeddings) ==
    GraphOutput(self, w, SetMask(self, w, embeddings))

\* call, lines 230-237: the tuple returned (a bare y_pred when it is alone).
CallResult(g, embeddings, return_num_masked, return_embeddings) ==
    LET result == <<g[2]>>
                  \o (IF return_num_masked THEN <<g[1]>> ELSE <<>>)
                  \o (IF return_embeddings THEN <<embeddings>> ELSE <<>>)
    IN  IF Len(result) = 1 THEN result[1] ELSE result

\* call, line 229 onwards, from the embeddings.
CallOnEmbeddings(self, w, embeddings, return_num_masked, return_embeddings) ==
    CallResult(PretrainGraph(self, w, embeddings), embeddings,
               return_num_masked, return_embeddings)

\* call, lines 227-237.
call(self, w0, w, inputs, return_num_masked, return_embeddings) ==
    CallOnEmbeddings(self, w, CallEmbeddings(self, w0, w, inputs),
                     return_num_masked, return_embeddings)

\* train_step, lines 207-213, from the tuple r = (y_pred, num_masked, y).
LossOfCall(self, r) ==
    compiled_loss(TargetSlice(r[3], r[2]), r[1], self.base.embed_dim)

\* train_step, lines 206-213: the loss recorded by the tape.
TapeLoss(self, w0, w, x) == LossOfCall(self, call(self, w0, w, x, TRUE, TRUE))

Perturbed(w, v) ==
    IF v = "none" THEN w ELSE [w EXCEPT ![v] = (w[v] + 1) % ActMod]

\* The loss at the parameters w ("none") and with each variable perturbed.
TapeLosses(self, w, x) ==
    Eager([v \in Variables \cup {"none"} |-> TapeLoss(self, w, Perturbed(w, v), x)])

\* tape.gradient, line 214: the loss's gradient for every variable.
TapeGradients(losses) ==
    [v \in Variables |-> losses[v].num - losses["none"].num]

\* self.trainable_variables: the variables of the layers left trainable.
TrainableVariables(self) ==
    (IF self.base.dnabert_encoder.trainable THEN {"enc"} ELSE {})
    \cup (IF self.base.trainable THEN {"cls", "att", "ind"} ELSE {})
    \cup (IF self.trainable THEN {"mask"} ELSE {})

\* optimizer.apply_gradients, line 215 (a zero gradient changes nothing).
ApplyGradients(self, w, grads) ==
    [v \in Variables |->
        IF v \in TrainableVariables(self) THEN (w[v] - grads[v]) % ActMod ELSE w[v]]

(***************************************************************************)
(* Specification SpecTrain: train_step is called on batches of one set.    *)
(***************************************************************************)
MaxSteps == 3     \* train_step calls in one run

TrainModel == SetBertPretrainModel(SetModelPlain, 700)

\* Batches of one set: shape (1, max_set_len, token length).
TrainBatches ==
    {[shape |-> <<1, 3, 2>>, data |-> d] :
        d \in {<<0, 0, 0, 1, 1, 0>>, <<0, 1, 1, 1, 0, 0>>, <<1, 1, 0, 1, 1, 0>>,
               <<1, 0, 0, 0, 0, 1>>, <<1, 1, 1, 1, 0, 1>>, <<0, 1, 0, 0, 1, 1>>}}

TrainInit ==
    /\ trainW \in [enc : 0..1, cls : {0}, att : 0..1, ind : {0}, mask : {0}]
    /\ trainW0 = trainW
    /\ trainSteps = 0
    /\ trainTape = <<>>
    /\ trainTest = <<>>
    /\ EncIdle /\ SetIdle /\ LossIdle /\ BldIdle /\ LdIdle /\ PpIdle

\* train_step, lines 214-215, with the losses the tape recorded.
ApplyStep(self, losses) ==
    /\ trainW' = ApplyGradients(self, trainW, TapeGradients(losses))
    /\ trainTape' = <<[loss |-> losses["none"], grads |-> TapeGradients(losses)]>>

TrainStep(x) ==
    /\ trainSteps < MaxSteps
    /\ ApplyStep(TrainModel, TapeLosses(TrainModel, trainW, x))
    /\ trainSteps' = trainSteps + 1
    /\ UNCHANGED <<trainW0, trainTest, NotTrain>>

\* test_step, line 221: `num_masked, y_pred = self(x)`.  self(x) is the bare
\* y_pred, a tensor (batch, num_masked, embed_dim); the assignment iterates
\* over its leading axis and needs exactly two entries.
UnpackPair(rows) ==
    IF Len(rows) = 2
    THEN [error |-> "none", num_masked |-> rows[1], y_pred |-> rows[2]]
    ELSE [error |-> "ValueError"]

\* test_step, lines 222-223, after the unpacking: the bound of the slice
\* y[:, :num_masked, :] is a row of predictions, not a count.
TestLoss(self, u, y) ==
    IF u.error # "none"
    THEN [error |-> u.error, loss |-> <<>>]
    ELSE [error |-> "TypeError", loss |-> <<>>]

\* test_step, lines 219-225, for a batch (x, y) of one set: y_pred is the
\* result of self(x) for that set.
TestResult(self, y_pred, x, y) ==
    TestLoss(self, UnpackPair([b \in 1..x.shape[1] |-> y_pred]), y)

TestStep(x, y) ==
    /\ trainTest' = <<TestResult(TrainModel,
                                  call(TrainModel, trainW, trainW, x, FALSE, FALSE), x, y)>>
    /\ UNCHANGED <<trainW, trainW0, trainSteps, trainTape, NotTrain>>

TrainNext ==
    \/ \E x \in TrainBatches : TrainStep(x)
    \/ \E x \in TrainBatches : TestStep(x, x)

SpecTrain == TrainInit /\ [][TrainNext]_vars

\* C2: the encoder is frozen by a hard detach: no gradient of the loss reaches
\* the encoder's parameters, and after any number of train_step calls they
\* equal their values before the first call; only the parameters of the
\* aggregator and of the masking layer differ.
C2_EncoderFrozen ==
    /\ trainW.enc = trainW0.enc
    /\ trainTape # <<>> => trainTape[1].grads["enc"] = 0
    /\ \A v \in Variables : trainW[v] # trainW0[v] => v \in {"cls", "att", "ind", "mask"}

\* Steps were taken, the loss was not zero and the aggregator and mask
\* parameters moved.
C2_Witness ==
    /\ trainSteps >= 2
    /\ trainTape[1].loss.num > 0
    /\ trainW.mask # trainW0.mask
    /\ \E v \in {"cls", "att", "ind"} : trainW[v] # trainW0[v]

(***************************************************************************)
(* Construction of the wrappers (dnabert.py:69-206, setbert.py:119-276).   *)
(* A constructor call yields [error, self]: self holds the attributes that *)
(* were assigned, and error names the exception that ended __init__        *)
(* ("none" when it ran to its end).                                        *)
(***************************************************************************)
Ok(self) == [error |-> "none", self |-> self]

Raised(exception, self) == [error |-> exception, self |-> self]

\* layers.ContiguousMask(mask_ratio): the ratio lives in a float32 variable.
ContiguousMask(mask_ratio) ==
    [class |-> "ContiguousMask", mask_ratio |-> ToFloat32(mask_ratio)]

\* DnaBertPretrainModel.__init__, lines 85-86.
EffectiveMaxLen(base, max_len) ==
    IF max_len = None THEN base.sequence_length ELSE max_len

EffectiveMinLen(base, min_len, max_len) ==
    IF min_len = None THEN EffectiveMaxLen(base, max_len) ELSE min_len

\* __init__, line 87, with the assertion left out.
LengthsAssertSkipped(self) == TRUE

\* __init__, line 87: assert self.min_len <= self.max_len
LengthsAssert(self) == self.min_len <= self.max_len

\* build_model, line 106 with the width of the base's embedding table.
LogitUnitsWithSentinels(base) == base.vocab_size

\* build_model, line 106: Dense(self.base.num_bases**self.base.kmer)
LogitUnits(base) == Pow(base.num_bases, base.kmer)

\* DnaBertPretrainModel.build_model, lines 97-108: the graph's static shapes.
PretrainBuildModel(self) ==
    [input_shape  |-> <<None, InputLength(self.base.sequence_length, self.base.kmer)>>,
     shift        |-> 1 + BoolToInt(self.base.variable_length),
     masking      |-> self.masking.class,
     output_shape |-> <<None, InputLength(self.base.sequence_length, self.base.kmer),
                        LogitUnits(self.base)>>]

\* __init__, lines 88-95, once the assertion has passed.  Line 92 reads
\* self.mask_ratio, an attribute no line assigns: with a variable_length base
\* the constructor ends there.
PretrainMasking(self, mask_ratio) ==
    IF self.base.variable_length
    THEN Raised("AttributeError", self)
    ELSE Ok(self @@ [masking |-> ContiguousMask(mask_ratio),
                     model   |-> PretrainBuildModel(
                                    self @@ [masking |-> ContiguousMask(mask_ratio)])])

\* DnaBertPretrainModel.__init__, lines 75-95.
DnaBertPretrainModel(base, mask_ratio, min_len, max_len) ==
    LET self == [class   |-> "DnaBertPretrainModel",
                 base    |-> base,
                 max_len |-> EffectiveMaxLen(base, max_len),
                 min_len |-> EffectiveMinLen(base, min_len, max_len)]
    IN  IF LengthsAssert(self)
        THEN PretrainMasking(self, mask_ratio)
        ELSE Raised("AssertionError", self)

(***************************************************************************)
(* TaxonomyHierarchy (dnadb.taxonomy): rank r lists its labels in order,   *)
(* each with its name and the index of its parent in rank r - 1 (0 in the  *)
(* first rank).                                                            *)
(***************************************************************************)
TaxonomyDepth == 6    \* prepare_public_dataset.py:150, from_labels(..., depth=6)

\* Labels of rank r: `width` labels in the first rank, `grow` more in every
\* further rank, the parents in order.
RankLabels(r, width, grow) ==
    [i \in 1..(width + (r - 1) * grow) |->
        [name   |-> i + r,
         parent |-> IF r = 1 THEN 0 ELSE Min(i, width + (r - 2) * grow)]]

Hierarchy(depth, width, grow) ==
    [depth |-> depth,
     ranks |-> [r \in 1..depth |-> RankLabels(r, width, grow)]]

\* layers.TaxonomyBlock.from_hierarchy / TaxonomyHierarchyBlock.from_hierarchy:
\* one output per rank of the hierarchy, as wide as the rank's vocabulary.
FromHierarchy(class, hierarchy) ==
    [class        |-> class,
     output_units |-> [r \in 1..hierarchy.depth |-> Len(hierarchy.ranks[r])]]

\* __init__, lines 172-177 with the two modes exchanged.
HierarchyBlockSwapped(hierarchy, use_top_down_hierarchy) ==
    IF use_top_down_hierarchy
    THEN FromHierarchy("TaxonomyBlock", hierarchy)
    ELSE FromHierarchy("TaxonomyHierarchyBlock", hierarchy)

\* __init__, lines 172-177.
HierarchyBlock(hierarchy, use_top_down_hierarchy) ==
    IF use_top_down_hierarchy
    THEN FromHierarchy("TaxonomyHierarchyBlock", hierarchy)
    ELSE FromHierarchy("TaxonomyBlock", hierarchy)

\* DnaBertTaxonomyModel.build_model, lines 180-185: the ids reach the base
\* as they are.
TaxonomyBuildModel(self) ==
    [input_shape  |-> self.base.input_shape,
     shift        |-> 0,
     output_units |-> self.hierarchy_block.output_units]

TaxonomyFinish(self) == Ok(self @@ [model |-> TaxonomyBuildModel(self)])

\* DnaBertTaxonomyModel.__init__, lines 161-178.
DnaBertTaxonomyModel(base, hierarchy, use_top_down_hierarchy) ==
    TaxonomyFinish(
        [class                  |-> "DnaBertTaxonomyModel",
         base                   |-> base,
         hierarchy              |-> hierarchy,
         use_top_down_hierarchy |-> use_top_down_hierarchy,
         hierarchy_block        |-> HierarchyBlock(hierarchy, use_top_down_hierarchy)])

(***************************************************************************)
(* Specification of construction: a base model is built, then wrappers     *)
(* around what has been built.                                             *)
(***************************************************************************)
MaxKmer == 3       \* k-mer lengths 1..MaxKmer
MaxStack == 2      \* transformer blocks 1..MaxStack
MaxDepth == 6      \* hierarchies of 1..MaxDepth ranks
MaxWidth == 2      \* 1..MaxWidth labels in the first rank

SequenceLengths == {MaxKmer + 1, 150}

\* Values given for min_len and max_len around the base's sequence length.
LenArgs(base) ==
    {None, base.sequence_length - 1, base.sequence_length, base.sequence_length + 1}

MaskRatioArgs == {150, 155}

Hierarchies ==
    {Hierarchy(d, w, g) : d \in 1..MaxDepth, w \in 1..MaxWidth, g \in 0..1}

\* The object of the last constructor call, when it is one of class `class`.
Built(class) ==
    /\ bldObj # <<>>
    /\ bldObj[1].error = "none"
    /\ bldObj[1].self.class = class

\* The last constructor call was one of class `class`.
Called(class) == bldArgs # <<>> /\ bldArgs[1].class = class

\* Wrappers are built around a model nothing has been done with yet.
Fresh(class) == Built(class) /\ bldCfg = <<>>

BuildInit == BldIdle /\ EncIdle /\ SetIdle /\ LossIdle /\ TrainIdle /\ LdIdle /\ PpIdle

\* base = DnaBertModel(...)
NewDnaBertModel(sequence_length, kmer, embed_dim, stack, pre_layernorm, variable_length, num_bases) ==
    /\ bldBase = <<>>
    /\ bldBase' = <<DnaBertModel(sequence_length, kmer, embed_dim, stack, 1,
                                 pre_layernorm, variable_length, num_bases)>>
    /\ bldArgs' = <<[class |-> "DnaBertModel", sequence_length |-> sequence_length,
                     kmer |-> kmer, embed_dim |-> embed_dim, stack |-> stack,
                     num_heads |-> 1, pre_layernorm |-> pre_layernorm,
                     variable_length |-> variable_length, num_bases |-> num_bases]>>
    /\ bldObj' = <<Ok(bldBase'[1])>>
    /\ bldCfg' = <<>> /\ bldCopy' = <<>>
    /\ UNCHANGED NotBld

\* DnaBertPretrainModel(base, mask_ratio, min_len, max_len)
NewDnaBertPretrainModel(mask_ratio, min_len, max_len) ==
    /\ Fresh("DnaBertModel")
    /\ bldArgs' = <<[class |-> "DnaBertPretrainModel", base |-> bldBase[1],
                     mask_ratio |-> mask_ratio, min_len |-> min_len,
                     max_len |-> max_len]>>
    /\ bldObj' = <<DnaBertPretrainModel(bldBase[1], mask_ratio, min_len, max_len)>>
    /\ bldCfg' = <<>> /\ bldCopy' = <<>>
    /\ UNCHANGED <<bldBase, NotBld>>

\* DnaBertEncoderModel(base, chunk_size)
NewDnaBertEncoderModel(chunk_size) ==
    /\ Fresh("DnaBertModel")
    /\ bldArgs' = <<[class |-> "DnaBertEncoderModel", base |-> bldBase[1],
                     chunk_size |-> chunk_size]>>
    /\ bldObj' = <<Ok(DnaBertEncoderModel(bldBase[1], chunk_size))>>
    /\ bldCfg' = <<>> /\ bldCopy' = <<>>
    /\ UNCHANGED <<bldBase, NotBld>>

\* DnaBertTaxonomyModel(base, hierarchy, use_top_down_hierarchy)
NewDnaBertTaxonomyModel(hierarchy, use_top_down_hierarchy) ==
    /\ Fresh("DnaBertModel")
    /\ bldArgs' = <<[class |-> "DnaBertTaxonomyModel", base |-> bldBase[1],
                     hierarchy |-> hierarchy,
                     use_top_down_hierarchy |-> use_top_down_hierarchy]>>
    /\ bldObj' = <<DnaBertTaxonomyModel(bldBase[1], hierarchy, use_top_down_hierarchy)>>
    /\ bldCfg' = <<>> /\ bldCopy' = <<>>
    /\ UNCHANGED <<bldBase, NotBld>>

\* C5: a DnaBertPretrainModel whose effective min_len exceeds its effective
\* max_len (max_len defaults to the base's sequence_length, min_len to
\* max_len) fails in the constructor with an AssertionError, with no masking
\* layer and no model graph built; with min_len <= max_len the constructor
\* does not end with that error.
C5_LengthsChecked ==
    Called("DnaBertPretrainModel") =>
        LET a == bldArgs[1]
            o == bldObj[1]
            max == IF a.max_len = None THEN bldBase[1].sequence_length ELSE a.max_len
            min == IF a.min_len = None THEN max ELSE a.min_len
        IN  /\ min > max => /\ o.error = "AssertionError"
                            /\ "masking" \notin DOMAIN o.self
                            /\ "model" \notin DOMAIN o.self
            /\ min <= max => o.error # "AssertionError"

\* A call with min_len above the default max_len was rejected.
C5_Witness ==
    /\ Called("DnaBertPretrainModel")
    /\ bldArgs[1].max_len = None /\ bldArgs[1].min_len # None
    /\ bldArgs[1].min_len > bldBase[1].sequence_length
    /\ bldObj[1].error = "AssertionError"

C7_BaseShapes ==
    bldBase # <<>> =>
        LET b == bldBase[1]
        IN  /\ b.vocab_size = Pow(b.num_bases, b.kmer) + 1
                                + (IF b.variable_length THEN 1 ELSE 0)
            /\ b.input_shape = <<None, b.sequence_length - b.kmer + 1>>
            /\ b.output_shape = <<None, 1 + (b.sequence_length - b.kmer + 1), b.embed_dim>>
            /\ (b.kmer = 3 /\ b.num_bases = 4 /\ b.sequence_length = 150) =>
                   /\ b.vocab_size = (IF b.variable_length THEN 66 ELSE 65)
                   /\ b.input_shape[2] = 148
                   /\ b.output_shape[2] = 149

\* The configuration kmer = 3, num_bases = 4, sequence_length = 150 with
\* variable_length was built.
C7_Witness ==
    /\ bldBase # <<>>
    /\ bldBase[1].kmer = 3 /\ bldBase[1].num_bases = 4
    /\ bldBase[1].sequence_length = 150 /\ bldBase[1].variable_length
    /\ bldBase[1].vocab_size = 66

\* C8 as stated: the logit axis of DnaBertPretrainModel's output is as wide
\* as the vocabulary of the wrapped DnaBertModel (num_bases^kmer plus the
\* reserved tokens).
C8_LogitsOverVocabulary ==
    Built("DnaBertPretrainModel") =>
        bldObj[1].self.model.output_shape[3] = bldBase[1].vocab_size

\* C8 amended: the logit axis of every DnaBertPretrainModel that is built is
\* num_bases^kmer wide, the raw k-mer ids without the reserved tokens: the
\* base's vocabulary size less 1 + variable_length; there is one logit vector
\* per input token (the class token's position is split off).
C8_LogitsOverKmers ==
    Built("DnaBertPretrainModel") =>
        LET b == bldBase[1]
            out == bldObj[1].self.model.output_shape
        IN  /\ out[3] = Pow(b.num_bases, b.kmer)
            /\ out[3] = b.vocab_size - (1 + (IF b.variable_length THEN 1 ELSE 0))
            /\ out[2] = b.input_shape[2]

\* A pretraining model over 4^3 k-mers was built: 64 logits, 65 embeddings.
C8_Witness ==
    /\ Built("DnaBertPretrainModel")
    /\ bldBase[1].kmer = 3 /\ bldBase[1].num_bases = 4
    /\ bldObj[1].self.model.output_shape[3] = 64
    /\ bldBase[1].vocab_size = 65

\* SetBertEncoderModel.__init__, lines 261-264.
SetBertEncoderModel(base) == [class |-> "SetBertEncoderModel", base |-> base]

\* SetBertModel(dnabert_encoder, embed_dim, max_set_len, stack, num_heads, ...)
NewSetBertModel(max_set_len, stack, num_induce, pre_layernorm) ==
    /\ Fresh("DnaBertEncoderModel")
    /\ bldArgs' = <<[class |-> "SetBertModel", dnabert_encoder |-> bldObj[1].self,
                     embed_dim |-> bldBase[1].embed_dim, max_set_len |-> max_set_len,
                     stack |-> stack, num_heads |-> 1, num_induce |-> num_induce,
                     pre_layernorm |-> pre_layernorm]>>
    /\ bldObj' = <<Ok(SetBertModel(bldObj[1].self, bldBase[1].embed_dim, max_set_len,
                                   stack, 1, num_induce, pre_layernorm))>>
    /\ bldCfg' = <<>> /\ bldCopy' = <<>>
    /\ UNCHANGED <<bldBase, NotBld>>

\* SetBertPretrainModel(base, mask_ratio)
NewSetBertPretrainModel(mask_ratio) ==
    /\ Fresh("SetBertModel")
    /\ bldArgs' = <<[class |-> "SetBertPretrainModel", base |-> bldObj[1].self,
                     mask_ratio |-> mask_ratio]>>
    /\ bldObj' = <<Ok(SetBertPretrainModel(bldObj[1].self, mask_ratio))>>
    /\ bldCfg' = <<>> /\ bldCopy' = <<>>
    /\ UNCHANGED <<bldBase, NotBld>>

\* SetBertEncoderModel(base)
NewSetBertEncoderModel ==
    /\ Fresh("SetBertModel")
    /\ bldArgs' = <<[class |-> "SetBertEncoderModel", base |-> bldObj[1].self]>>
    /\ bldObj' = <<Ok(SetBertEncoderModel(bldObj[1].self))>>
    /\ bldCfg' = <<>> /\ bldCopy' = <<>>
    /\ UNCHANGED <<bldBase, NotBld>>

(***************************************************************************)
(* The JSON document of a hierarchy (dnabert.py:199, 205).  to_json nests  *)
(* every label's children under it; json.dumps writes the document as a    *)
(* text, here a sequence of tokens: the depth, then for every label its     *)
(* name and its children between brackets.                                 *)
(***************************************************************************)
OpenBracket == 0 - 1
CloseBracket == 0 - 2

\* The indices of the labels of rank r whose parent is `parent`, in order.
LabelsUnder(h, r, parent) ==
    LET Under(i) == h.ranks[r][i].parent = parent
    IN  SelectSeq([i \in 1..Len(h.ranks[r]) |-> i], Under)

RECURSIVE TaxonTree(_, _, _)
TaxonNodes(h, r, labels) ==
    Eager([k \in 1..Len(labels) |->
        [name     |-> h.ranks[r][labels[k]].name,
         children |-> TaxonTree(h, r + 1, labels[k])]])

TaxonTree(h, r, parent) ==
    IF r > h.depth THEN <<>> ELSE TaxonNodes(h, r, LabelsUnder(h, r, parent))

\* TaxonomyHierarchy.to_json
to_json(h) == [depth |-> h.depth, tree |-> TaxonTree(h, 1, 0)]

RECURSIVE DumpNodes(_, _)
DumpNodes(nodes, i) ==
    IF i > Len(nodes) THEN <<>>
    ELSE <<nodes[i].name, OpenBracket>> \o DumpNodes(nodes[i].children, 1)
             \o <<CloseBracket>> \o DumpNodes(nodes, i + 1)

\* json.dumps
json_dumps(doc) ==
    <<doc.depth, OpenBracket>> \o DumpNodes(doc.tree, 1) \o <<CloseBracket>>

\* json.loads: the nodes that start at token `pos`, up to the closing
\* bracket of their parent; `next` is the position after that bracket.
RECURSIVE ParseNodes(_, _)
ConsNode(name, children, rest) ==
    [val  |-> <<[name |-> name, children |-> children]>> \o rest.val,
     next |-> rest.next]

ParseSiblings(t, name, sub) == ConsNode(name, sub.val, ParseNodes(t, sub.next))

ParseNodes(t, pos) ==
    IF t[pos] = CloseBracket
    THEN [val |-> <<>>, next |-> pos + 1]
    ELSE ParseSiblings(t, t[pos], ParseNodes(t, pos + 2))

json_loads(t) == [depth |-> t[1], tree |-> ParseNodes(t, 3).val]

\* The children of the nodes level[i], level[i + 1], ..., each with the index
\* of its parent in `level`.
RECURSIVE NextLevel(_, _)
NextLevel(level, i) ==
    IF i > Len(level) THEN <<>>
    ELSE [k \in 1..Len(level[i].node.children) |->
             [node |-> level[i].node.children[k], parent |-> i]]
         \o NextLevel(level, i + 1)

RECURSIVE Levels(_, _)
Levels(level, depth) ==
    IF depth = 0 THEN <<>>
    ELSE <<[i \in 1..Len(level) |->
               [name |-> level[i].node.name, parent |-> level[i].parent]]>>
         \o Levels(NextLevel(level, 1), depth - 1)

\* TaxonomyHierarchy.from_json
from_json(doc) ==
    [depth |-> doc.depth,
     ranks |-> Levels([i \in 1..Len(doc.tree) |-> [node |-> doc.tree[i], parent |-> 0]],
                      doc.depth)]

(***************************************************************************)
(* Configuration records (get_config / from_config).  A record is a        *)
(* function from keys to values.                                           *)
(***************************************************************************)
\* a | b on two dicts: the entries of b win.
DictUnion(a, b) == b @@ a

\* get_config of ModelWrapper and CustomModel (custom_model.py): no entry
\* of their own.
SuperGetConfig(self) == <<>>

\* DnaBertModel.get_config, lines 57-67.
DnaBertModelGetConfig(self) ==
    DictUnion(SuperGetConfig(self),
        [sequence_length |-> self.sequence_length,
         kmer            |-> self.kmer,
         embed_dim       |-> self.embed_dim,
         stack           |-> self.stack,
         num_heads       |-> self.num_heads,
         pre_layernorm   |-> self.pre_layernorm,
         variable_length |-> self.variable_length,
         num_bases       |-> self.num_bases])

\* DnaBertPretrainModel.get_config, lines 118-124.
DnaBertPretrainModelGetConfig(self) ==
    DictUnion(SuperGetConfig(self),
        [base       |-> self.base,
         min_len    |-> self.min_len,
         max_len    |-> self.max_len,
         mask_ratio |-> self.masking.mask_ratio])

\* DnaBertEncoderModel.get_config, lines 152-156.
DnaBertEncoderModelGetConfig(self) ==
    DictUnion(SuperGetConfig(self),
        [base |-> self.base, chunk_size |-> self.chunk_size])

\* DnaBertTaxonomyModel.get_config, lines 196-201.
DnaBertTaxonomyModelGetConfig(self) ==
    DictUnion(SuperGetConfig(self),
        [base                   |-> self.base,
         hierarchy              |-> json_dumps(to_json(self.hierarchy)),
         use_top_down_hierarchy |-> self.use_top_down_hierarchy])

\* SetBertModel.get_config, lines 167-176, without the num_induce entry.
SetBertModelGetConfigNoInduce(self) ==
    DictUnion(SuperGetConfig(self),
        [dnabert_encoder |-> self.dnabert_encoder,
         embed_dim       |-> self.embed_dim,
         max_set_len     |-> self.max_set_len,
         stack           |-> self.stack,
         num_heads       |-> self.num_heads,
         pre_layernorm   |-> self.pre_layernorm])

\* SetBertModel.get_config, lines 167-176.
SetBertModelGetConfig(self) ==
    DictUnion(SuperGetConfig(self),
        [dnabert_encoder |-> self.dnabert_encoder,
         embed_dim       |-> self.embed_dim,
         max_set_len     |-> self.max_set_len,
         stack           |-> self.stack,
         num_heads       |-> self.num_heads,
         num_induce      |-> self.num_induce,
         pre_layernorm   |-> self.pre_layernorm])

\* SetBertPretrainModel.get_config, lines 252-256.
SetBertPretrainModelGetConfig(self) ==
    DictUnion(SuperGetConfig(self),
        [base |-> self.base, mask_ratio |-> self.mask_ratio])

\* SetBertEncoderModel.get_config, lines 273-276.
SetBertEncoderModelGetConfig(self) ==
    DictUnion(SuperGetConfig(self), [base |-> self.base])

\* self.get_config()
get_config(self) ==
    CASE self.class = "DnaBertModel" -> DnaBertModelGetConfig(self)
      [] self.class = "DnaBertPretrainModel" -> DnaBertPretrainModelGetConfig(self)
      [] self.class = "DnaBertEncoderModel" -> DnaBertEncoderModelGetConfig(self)
      [] self.class = "DnaBertTaxonomyModel" -> DnaBertTaxonomyModelGetConfig(self)
      [] self.class = "SetBertModel" -> SetBertModelGetConfig(self)
      [] self.class = "SetBertPretrainModel" -> SetBertPretrainModelGetConfig(self)
      [] self.class = "SetBertEncoderModel" -> SetBertEncoderModelGetConfig(self)

\* A keyword argument of the constructor call: the entry of the dict, or the
\* parameter's default.
Kwarg(config, key, default) ==
    IF key \in DOMAIN config THEN config[key] ELSE default

\* from_config of ModelWrapper and CustomModel (custom_model.py):
\* the constructor of the class, called with the entries as keyword
\* arguments.
SuperFromConfig(class, c) ==
    CASE class = "DnaBertModel" ->
            Ok(DnaBertModel(c.sequence_length, c.kmer, c.embed_dim, c.stack,
                            c.num_heads, Kwarg(c, "pre_layernorm", TRUE),
                            Kwarg(c, "variable_length", FALSE),
                            Kwarg(c, "num_bases", 4)))
      [] class = "DnaBertPretrainModel" ->
            DnaBertPretrainModel(c.base, Kwarg(c, "mask_ratio", 150),
                                 Kwarg(c, "min_len", None), Kwarg(c, "max_len", None))
      [] class = "DnaBertEncoderModel" ->
            Ok(DnaBertEncoderModel(c.base, c.chunk_size))
      [] class = "DnaBertTaxonomyModel" ->
            DnaBertTaxonomyModel(c.base, c.hierarchy,
                                 Kwarg(c, "use_top_down_hierarchy", FALSE))
      [] class = "SetBertModel" ->
            Ok(SetBertModel(c.dnabert_encoder, c.embed_dim, c.max_set_len, c.stack,
                            c.num_heads, Kwarg(c, "num_induce", None),
                            Kwarg(c, "pre_layernorm", TRUE)))
      [] class = "SetBertPretrainModel" ->
            Ok(SetBertPretrainModel(c.base, Kwarg(c, "mask_ratio", 150)))
      [] class = "SetBertEncoderModel" ->
            Ok(SetBertEncoderModel(c.base))

\* DnaBertTaxonomyModel.from_config, line 205: the entry of the caller's
\* dict is replaced by the decoded hierarchy.
DecodeHierarchy(config) ==
    [config EXCEPT !["hierarchy"] = from_json(json_loads(@))]

\* cls.from_config(config): the dict as the call leaves it, and the outcome.
FromConfigResult(class, config) ==
    [config |-> config, obj |-> SuperFromConfig(class, config)]

from_config(class, config) ==
    IF class = "DnaBertTaxonomyModel"
    THEN FromConfigResult(class, DecodeHierarchy(config))
    ELSE FromConfigResult(class, config)

\* config = model.get_config()
GetConfig ==
    /\ bldObj # <<>> /\ bldObj[1].error = "none"
    /\ bldCfg = <<>>
    /\ bldCfg' = <<get_config(bldObj[1].self)>>
    /\ UNCHANGED <<bldBase, bldArgs, bldObj, bldCopy, NotBld>>

TakeFromConfig(r) == bldCfg' = <<r.config>> /\ bldCopy' = <<r.obj>>

\* copy = type(model).from_config(config)
FromConfig ==
    /\ bldCfg # <<>> /\ bldCopy = <<>>
    /\ TakeFromConfig(from_config(bldObj[1].self.class, bldCfg[1]))
    /\ UNCHANGED <<bldBase, bldArgs, bldObj, NotBld>>

EmbedDims == {2, 3}

BuildNext ==
    \/ \E sequence_length \in SequenceLengths, kmer \in 1..MaxKmer,
          embed_dim \in EmbedDims, stack \in 1..MaxStack,
          pre_layernorm \in BOOLEAN, variable_length \in BOOLEAN,
          num_bases \in {2, 4} :
          NewDnaBertModel(sequence_length, kmer, embed_dim, stack,
                          pre_layernorm, variable_length, num_bases)
    \/ /\ bldBase # <<>>
       /\ \E mask_ratio \in MaskRatioArgs :
             \E min_len \in LenArgs(bldBase[1]), max_len \in LenArgs(bldBase[1]) :
                 NewDnaBertPretrainModel(mask_ratio, min_len, max_len)
    \/ \E chunk_size \in 1..MaxChunk : NewDnaBertEncoderModel(chunk_size)
    \/ \E hierarchy \in Hierarchies, use_top_down_hierarchy \in BOOLEAN :
          NewDnaBertTaxonomyModel(hierarchy, use_top_down_hierarchy)
    \/ \E max_set_len \in 2..3, stack \in 1..MaxStack,
          num_induce \in {None, 2}, pre_layernorm \in BOOLEAN :
          NewSetBertModel(max_set_len, stack, num_induce, pre_layernorm)
    \/ \E mask_ratio \in MaskRatioArgs : NewSetBertPretrainModel(mask_ratio)
    \/ NewSetBertEncoderModel
    \/ GetConfig
    \/ FromConfig

SpecBuild == BuildInit /\ [][BuildNext]_vars

\* The parameters of each constructor.
CtorParams(class) ==
    CASE class = "DnaBertModel" ->
            {"sequence_length", "kmer", "embed_dim", "stack", "num_heads",
             "pre_layernorm", "variable_length", "num_bases"}
      [] class = "DnaBertPretrainModel" -> {"base", "mask_ratio", "min_len", "max_len"}
      [] class = "DnaBertEncoderModel" -> {"base", "chunk_size"}
      [] class = "DnaBertTaxonomyModel" -> {"base", "hierarchy", "use_top_down_hierarchy"}
      [] class = "SetBertModel" ->
            {"dnabert_encoder", "embed_dim", "max_set_len", "stack", "num_heads",
             "num_induce", "pre_layernorm"}
      [] class = "SetBertPretrainModel" -> {"base", "mask_ratio"}
      [] class = "SetBertEncoderModel" -> {"base"}

\* The value of parameter k in effect after the constructor call with the
\* arguments a: defaults resolved, the ratio as the float32 the layer holds,
\* the hierarchy as its JSON text, the encoder as SetBertModel froze it.
InEffect(a, k) ==
    CASE k = "mask_ratio" -> ToFloat32(a.mask_ratio)
      [] k = "max_len" -> IF a.max_len = None THEN a.base.sequence_length ELSE a.max_len
      [] k = "min_len" ->
            IF a.min_len # None THEN a.min_len
            ELSE IF a.max_len = None THEN a.base.sequence_length ELSE a.max_len
      [] k = "hierarchy" -> json_dumps(to_json(a.hierarchy))
      [] k = "dnabert_encoder" -> [a.dnabert_encoder EXCEPT !.trainable = FALSE]
      [] OTHER -> a[k]

\* C9: get_config() of every component has an entry for every constructor
\* parameter, holding the value in effect (the child component itself under
\* "base" / "dnabert_encoder", the hierarchy as a JSON text), and
\* from_config(get_config()) succeeds and yields a component with an equal
\* get_config(); for DnaBertTaxonomyModel the decoded hierarchy has the ranks
\* of the original: the same labels in every rank and the same parent for
\* every label.
C9_ConfigRoundTrip ==
    /\ (bldCfg # <<>> /\ bldCopy = <<>>) =>
           /\ CtorParams(bldArgs[1].class) \subseteq DOMAIN bldCfg[1]
           /\ \A k \in CtorParams(bldArgs[1].class) :
                  bldCfg[1][k] = InEffect(bldArgs[1], k)
    /\ bldCopy # <<>> =>
           /\ bldCopy[1].error = "none"
           /\ get_config(bldCopy[1].self) = get_config(bldObj[1].self)
           /\ Called("DnaBertTaxonomyModel") =>
                  /\ bldCopy[1].self.hierarchy.depth = bldArgs[1].hierarchy.depth
                  /\ \A r \in 1..bldArgs[1].hierarchy.depth :
                         bldCopy[1].self.hierarchy.ranks[r] = bldArgs[1].hierarchy.ranks[r]

\* A classifier over a hierarchy of TaxonomyDepth ranks that widens towards
\* the last rank went through its configuration and back.
C9_Witness ==
    /\ bldCopy # <<>> /\ Called("DnaBertTaxonomyModel")
    /\ bldArgs[1].hierarchy.depth = TaxonomyDepth
    /\ Len(bldArgs[1].hierarchy.ranks[TaxonomyDepth]) > Len(bldArgs[1].hierarchy.ranks[1])
    /\ bldCopy[1].self.hierarchy = bldArgs[1].hierarchy
    /\ bldCfg[1]["hierarchy"] = bldArgs[1].hierarchy

(***************************************************************************)
(* load_model (common/nn/__init__.py:5-18).  A dict is a function from     *)
(* names to objects; an optional argument is <<>> for None and <<d>> for   *)
(* the dict d.                                                             *)
(***************************************************************************)
\* The classes dnabert.py and setbert.py decorate with @CustomObject.
ModelClasses ==
    {"DnaBertModel", "DnaBertPretrainModel", "DnaBertEncoderModel",
     "DnaBertTaxonomyModel", "SetBertModel", "SetBertPretrainModel",
     "SetBertEncoderModel"}

\* Classes a user of the package registers or passes along.
UserClasses == {"MyLayer", "MyLoss"}

\* @CustomObject (registry.py): the class is entered under its name.
CustomObject(registry, names) ==
    DictUnion(registry, [n \in names |-> "registered"])

\* registry.custom_objects(): a new dict of what is registered.
custom_objects_of(registry) == registry

\* load_model, lines 15-17: the local dict `objects`.
MergedObjects(registry, custom_objects) ==
    IF custom_objects # <<>>
    THEN DictUnion(custom_objects_of(registry), custom_objects[1])
    ELSE custom_objects_of(registry)

\* load_model, line 18: the positional arguments of
\* tf.keras.models.load_model; the second one is the parameter
\* custom_objects, not the local `objects`.
KerasLoadArgs(path, objects, custom_objects, compile, options) ==
    [filepath       |-> path,
     custom_objects |-> custom_objects,
     compile        |-> compile,
     options        |-> options]

\* The dicts a caller passes: some of these names, each with the caller's
\* own object.
CallerDicts ==
    UNION {[names -> {"callers", "patched"}] :
              names \in SUBSET {"DnaBertModel", "MyLayer", "MyLoss"}}

LoadInit ==
    /\ LdIdle
    /\ EncIdle /\ SetIdle /\ LossIdle /\ TrainIdle /\ BldIdle /\ PpIdle

\* A user class is decorated with @CustomObject.
RegisterCustom(name) ==
    /\ name \notin DOMAIN ldRegistry
    /\ ldRegistry' = CustomObject(ldRegistry, {name})
    /\ UNCHANGED <<ldArgs, ldObjects, ldHanded, NotLd>>

\* load_model(path, custom_objects, compile): line 14 imports the models,
\* which registers their classes, before the registry is read.
LoadModel(path, custom_objects, compile) ==
    /\ ldRegistry' = CustomObject(ldRegistry, ModelClasses)
    /\ ldArgs' = <<[path |-> path, custom_objects |-> custom_objects,
                    compile |-> compile, options |-> <<>>]>>
    /\ ldObjects' = <<MergedObjects(ldRegistry', custom_objects)>>
    /\ ldHanded' = <<KerasLoadArgs(path, ldObjects'[1], custom_objects, compile, <<>>)>>
    /\ UNCHANGED NotLd

LoadNext ==
    \/ \E name \in UserClasses : RegisterCustom(name)
    \/ \E custom_objects \in {<<>>} \cup {<<d>> : d \in CallerDicts},
          compile \in BOOLEAN :
          LoadModel("model", custom_objects, compile)

SpecLoad == LoadInit /\ [][LoadNext]_vars

\* C10 as stated: on every call of load_model, with custom_objects None or a
\* dict, the mapping handed to tf.keras.models.load_model holds every entry
\* of the registry and every entry of the caller, the caller's winning where
\* both have the name.
C10_RegistryHanded ==
    ldHanded # <<>> =>
        LET handed == ldHanded[1].custom_objects
            given == ldArgs[1].custom_objects
        IN  /\ handed # <<>>
            /\ \A n \in DOMAIN ldRegistry :
                   /\ n \in DOMAIN handed[1]
                   /\ handed[1][n] =
                          IF given # <<>> /\ n \in DOMAIN given[1]
                          THEN given[1][n] ELSE ldRegistry[n]
            /\ given # <<>> =>
                   \A n \in DOMAIN given[1] :
                       n \in DOMAIN handed[1] /\ handed[1][n] = given[1][n]

\* C11 as stated: a DnaBertPretrainModel call with min_len <= max_len
\* succeeds; over a variable_length base it installs a trim-then-mask layer
\* with the bounds min_len - kmer + 1 and max_len - kmer + 1 and the ratio
\* passed to the constructor, over a fixed-length base a contiguous-mask
\* layer with that ratio.
C11_MaskingInstalled ==
    Called("DnaBertPretrainModel") =>
        LET a == bldArgs[1]
            o == bldObj[1]
            max == IF a.max_len = None THEN a.base.sequence_length ELSE a.max_len
            min == IF a.min_len = None THEN max ELSE a.min_len
        IN  min <= max =>
                /\ o.error = "none"
                /\ "masking" \in DOMAIN o.self
                /\ o.self.masking.mask_ratio = ToFloat32(a.mask_ratio)
                /\ o.self.masking.class =
                       IF a.base.variable_length THEN "TrimAndContiguousMask"
                                                 ELSE "ContiguousMask"
                /\ a.base.variable_length =>
                       /\ o.self.masking.min_len = min - a.base.kmer + 1
                       /\ o.self.masking.max_len = max - a.base.kmer + 1

(***************************************************************************)
(* prepare_public_dataset.py: main (lines 117-182) with output_fasta       *)
(* (lines 59-88).  A file is named by its directory and its kind; the      *)
(* split fractions are counted in thousandths.                             *)
(***************************************************************************)
MaxSplits == 3     \* --num-splits 1..MaxSplits

\* The command lines (define_arguments, lines 25-35) with what main finds:
\* the datasets selected, whether the parent of output_path exists, and
\* whether tqdm runs with its bar disabled.
PrepareConfigs ==
    [num_splits    : 1..MaxSplits,
     test_split    : {0, 200},
     output_fasta  : BOOLEAN,
     output_db     : BOOLEAN,
     compress      : BOOLEAN,
     datasets      : 0..1,
     parent_exists : BOOLEAN,
     tqdm_disable  : BOOLEAN]

\* main, lines 153-160: <<train_path>> or <<train_path, test_path>> of split i.
SplitPaths(config, i) ==
    IF config.test_split > 0
    THEN <<[split |-> i, part |-> "train"], [split |-> i, part |-> "test"]>>
    ELSE <<[split |-> None, part |-> "output_path"]>>

\* output_fasta, lines 67-88: the files opened, written and returned, the
\* train pair first.
output_fasta(paths) ==
    Flat([p \in 1..Len(paths) |->
             <<[dir |-> paths[p], name |-> "fasta"],
               [dir |-> paths[p], name |-> "tax.tsv"]>>])

\* main, lines 162-169: fasta_files after `fasta_files += output_fasta(...)`.
FastaFiles(config, files, i) ==
    IF config.output_fasta
    THEN files \o output_fasta(SplitPaths(config, i))
    ELSE files

\* main, lines 180-182: tqdm(fasta_files, description=...) has no parameter
\* `description`; unless its bar is disabled it raises TqdmKeyError for the
\* unknown keyword.  Otherwise compress is called on every element of
\* fasta_files.
Compressing(config, files, i) ==
    IF ~(config.compress /\ Len(files) > 0)
    THEN [error |-> "none", calls |-> <<>>]
    ELSE IF ~config.tqdm_disable
    THEN [error |-> "TqdmKeyError", calls |-> <<>>]
    ELSE [error |-> "none",
          calls |-> [k \in 1..Len(files) |-> [file |-> files[k], split |-> i]]]

PrepareInit ==
    /\ ppConfig \in {<<c>> : c \in PrepareConfigs}
    /\ ppStatus = "check" /\ ppSplit = 0
    /\ ppFiles = <<>> /\ ppWritten = {} /\ ppCompress = <<>>
    /\ EncIdle /\ SetIdle /\ LossIdle /\ TrainIdle /\ BldIdle /\ LdIdle

\* main, lines 122-141: the checks before the loop.
CheckArguments ==
    /\ ppStatus = "check"
    /\ ppStatus' =
           IF \/ ppConfig[1].datasets = 0
              \/ ~ppConfig[1].parent_exists
              \/ ppConfig[1].num_splits > 1 /\ ppConfig[1].test_split = 0
           THEN "return 1" ELSE "loop"
    /\ UNCHANGED <<ppConfig, ppSplit, ppFiles, ppWritten, ppCompress, NotPp>>

TakeCompressing(r) ==
    /\ ppCompress' = ppCompress \o r.calls
    /\ ppStatus' = IF r.error = "none" THEN "loop" ELSE r.error
    /\ ppSplit' = IF r.error = "none" THEN ppSplit + 1 ELSE ppSplit

\* main, lines 144-182: one iteration of the loop over the splits.
SplitIteration ==
    /\ ppStatus = "loop" /\ ppSplit < ppConfig[1].num_splits
    /\ ppFiles' = FastaFiles(ppConfig[1], ppFiles, ppSplit)
    /\ ppWritten' = ppWritten \cup {ppFiles'[k] : k \in 1..Len(ppFiles')}
    /\ TakeCompressing(Compressing(ppConfig[1], ppFiles', ppSplit))
    /\ UNCHANGED <<ppConfig, NotPp>>

\* main, after the last iteration: the function ends.
LoopEnd ==
    /\ ppStatus = "loop" /\ ppSplit = ppConfig[1].num_splits
    /\ ppStatus' = "return"
    /\ UNCHANGED <<ppConfig, ppSplit, ppFiles, ppWritten, ppCompress, NotPp>>

PrepareNext == CheckArguments \/ SplitIteration \/ LoopEnd

SpecPrepare == PrepareInit /\ [][PrepareNext]_vars

\* The calls of compress on file f.
CompressCalls(f) == {k \in 1..Len(ppCompress) : ppCompress[k].file = f}

\* C12 as stated: with --output-fasta and --compress, no file written is
\* passed to compress more often than once, and when main has ended every
\* file written has been passed to compress exactly once.
C12_CompressedOnce ==
    (ppConfig # <<>> /\ ppConfig[1].output_fasta /\ ppConfig[1].compress) =>
        /\ \A f \in ppWritten : Cardinality(CompressCalls(f)) <= 1
        /\ ppStatus \in {"return", "TqdmKeyError"} =>
               \A f \in ppWritten : Cardinality(CompressCalls(f)) = 1

\* The id the wrapper `self` hands to its base for the raw k-mer id t
\* (build_model of each wrapper: dnabert.py lines 102, 140, 181-182).
PresentedId(self, t) ==
    CASE self.class = "DnaBertPretrainModel" -> t + self.model.shift
      [] self.class = "DnaBertEncoderModel" -> EncoderShifted(t)
      [] self.class = "DnaBertTaxonomyModel" -> t + self.model.shift

\* C13 as stated: each of DnaBertPretrainModel, DnaBertEncoderModel and
\* DnaBertTaxonomyModel hands the raw id t to the base as
\* t + 1 + variable_length, so that no raw id lands on one of the
\* 1 + variable_length reserved ids 0, 1.
C13_SameShift ==
    (\/ Built("DnaBertPretrainModel")
     \/ Built("DnaBertEncoderModel")
     \/ Built("DnaBertTaxonomyModel")) =>
        LET b == bldBase[1]
            reserved == 1 + (IF b.variable_length THEN 1 ELSE 0)
        IN  \A t \in 0..(Pow(b.num_bases, b.kmer) - 1) :
                /\ PresentedId(bldObj[1].self, t) = t + reserved
                /\ PresentedId(bldObj[1].self, t) >= reserved

\* C14 as stated: call returns (y_pred, num_masked if requested, embeddings
\* if requested) and a bare y_pred when neither is requested, and test_step
\* unpacks the result of its call by that convention: it ends without an
\* error with the loss train_step computes for a batch at the same
\* parameters (the num_masked predictions against the first num_masked
\* encoder embeddings).
C14_TestStepSameLoss ==
    trainTest # <<>> =>
        /\ trainTest[1].error = "none"
        /\ \E x \in TrainBatches :
               trainTest[1].loss = <<TapeLoss(TrainModel, trainW, trainW, x)>>

====
